---- MODULE Spec2Model ----
(***************************************************************************)
(* Model of rusty-chain's core: the block ledger (src/core/blockchain.rs)  *)
(* and the peer registry (src/core/nodemanager.rs).                        *)
(*                                                                         *)
(* Strings that hold digests are modelled as tuples: a literal string s is *)
(* <<s>> and the hex digest of a serialized block is the tuple of the      *)
(* serialized fields tagged "sha256" (SHA-256 taken as collision free).    *)
(* The digest used by the proof-of-work predicate is a reduced stand-in    *)
(* for the crypto library's SHA-256, see Sha256_result_str.                *)
(*                                                                         *)
(* src/main.rs carries an earlier copy of Blockchain (its new_transaction  *)
(* appends to the last block); the ledger modelled here is the one of      *)
(* src/core/blockchain.rs.                                                 *)
(***************************************************************************)
EXTENDS Integers, Sequences, FiniteSets, TLC

(* ------------------------------ bounds --------------------------------- *)

\* mine is not called once the local chain holds this many blocks
MaxChain == 3

\* add_transaction is not called once this many transactions are pending
MaxPending == 2

\* a peer reports at most this many blocks
MaxPeerLen == 3

\* proof_of_work is followed for candidates 0..SearchCap
SearchCap == 40

(* --------------------------- program constants ------------------------- *)

ORIGIN_SENDER == <<"0">>

ORIGIN_HASH == <<"1">>

GENESIS_PROOF == 100

MINING_REWARD == 1

\* the suffix valid_proof looks for, as hex digits
PROOF_SUFFIX == <<0, 0, 0, 0>>

(* ------------------------------ inputs --------------------------------- *)

\* the values Utc::now().timestamp() takes
Times == {0}

\* the address of this node (P2PNodeManager.local)
LocalAddr == "local"

PeerAddrs == {"peer1", "peer2"}

AllAddrs == PeerAddrs \cup {LocalAddr}

\* node_uuid given to mine
NodeUuids == {"n1"}

PeerUuid == "p1"

\* a string no block hashes to (tests::validate_chain uses "invalidhash")
InvalidHash == <<"invalidhash">>

\* the result of a proof_of_work search that has not returned
NoProof == 0 - 1

(* --------------------------- Transaction ------------------------------- *)

Transaction_new(sender, recipient, amount) ==
  [sender |-> sender, recipient |-> recipient, amount |-> amount]

\* the transaction a client submits when k transactions are pending: the
\* amounts 10, 15, .. tell the pool's entries apart
UserTransaction(k) == Transaction_new(<<"alice">>, <<"bob">>, 10 + 5 * k)

(* ------------------------------ Block ---------------------------------- *)

Block(index, timestamp, transactions, proof, previous_hash) ==
  [index |-> index, timestamp |-> timestamp, transactions |-> transactions,
   proof |-> proof, previous_hash |-> previous_hash]

(* ------------------------- proof of work ------------------------------- *)

\* format!("{}", n): the decimal digits of n, most significant first
RECURSIVE format(_)
format(n) == IF n < 10 THEN <<n>> ELSE Append(format(n \div 10), n % 10)

\* Stand-in for Sha256 over the bytes of a decimal string: a 3-bit word
\* folded over the digits.
RECURSIVE Sha256_word(_, _)
Sha256_word(h, s) ==
  IF s = <<>> THEN h ELSE Sha256_word((h * 3 + Head(s) + 3) % 7, Tail(s))

\* sha.result_str(): the hex digits of the digest; the stand-in spreads its
\* word over the last four digits, so "0000" ends about one digest in seven.
Sha256_result_str(s) == [i \in 1..4 |-> Sha256_word(0, s)]

ends_with(s, suffix) ==
  /\ Len(s) >= Len(suffix)
  /\ SubSeq(s, Len(s) - Len(suffix) + 1, Len(s)) = suffix

\* mutant: the digest of the two operands written one after the other
valid_proof_concatenated(last_proof, proof) ==
  LET guess == format(last_proof) \o format(proof)
  IN  ends_with(Sha256_result_str(guess), PROOF_SUFFIX)

\* the seals of this model keep last_proof * proof far below 2^64
valid_proof(last_proof, proof) ==
  LET guess == format(last_proof * proof)
  IN  ends_with(Sha256_result_str(guess), PROOF_SUFFIX)

RECURSIVE proof_of_work_from(_, _)
proof_of_work_from(last_proof, proof) ==
  IF valid_proof(last_proof, proof) THEN proof
  ELSE IF proof >= SearchCap THEN NoProof
  ELSE proof_of_work_from(last_proof, proof + 1)

\* mutant: the search keeps the last accepted candidate, not the first
proof_of_work_last(last_proof) ==
  LET hits == { p \in 0..SearchCap : valid_proof(last_proof, p) }
  IN  IF hits = {} THEN NoProof
      ELSE CHOOSE p \in hits : \A q \in hits : q <= p

proof_of_work(last_proof) == proof_of_work_from(last_proof, 0)

(* ------------------------------ hashing -------------------------------- *)

\* bincode serialization of the five fields, in declaration order
serialize(block) ==
  <<block.index, block.timestamp, block.transactions, block.proof,
    block.previous_hash>>

\* mutant: the transactions are left out of the serialized bytes
hash_without_transactions(block) ==
  <<"sha256", block.index, block.timestamp, block.proof,
    block.previous_hash>>

hash(block) == <<"sha256">> \o serialize(block)

(* ---------------------------- validation ------------------------------- *)

\* mutant: the seals are not checked
validate_chain_hash_only(chain) ==
  \A i \in 1..(Len(chain) - 1) : hash(chain[i]) = chain[i + 1].previous_hash

\* chain.iter().zip(&chain[1..]).all(..); the slice needs Len(chain) >= 1
validate_chain(chain) ==
  \A i \in 1..(Len(chain) - 1) :
    LET a == chain[i]
        b == chain[i + 1]
    IN  /\ hash(a) = b.previous_hash
        /\ valid_proof(b.proof, a.proof)

(* ------------------------------- state --------------------------------- *)

VARIABLES
  chain,                 \* Blockchain.chain
  pending_transactions,  \* Blockchain.pending_transactions
  nodes,                 \* P2PNodeManager.nodes
  returned,              \* what new_transaction returned for each pending one
  last,                  \* the last call: its arguments, result and pre-state
  threads,               \* the request each server thread is working on
  cluster                \* a registration between this node and a peer
                         \* that runs the same program

vars ==
  <<chain, pending_transactions, nodes, returned, last, threads, cluster>>

\* the server's worker threads
Threads == {"t1", "t2"}

\* a thread between requests; in a request: pc is the step it is at,
\* last_proof and proof are mine's locals, read is the chain mine read
\* last_proof from
Idle == [pc |-> "idle", last_proof |-> 0, proof |-> 0, read |-> <<>>]

\* the peer that runs the same program
PeerHost == "peer1"

Hosts == {LocalAddr, PeerHost}

\* a worker of a host serving no register request; serving one: remote is
\* the node to add, caller the worker (or the client) whose request it
\* serves, callee the worker serving the request it sent
IdleWorker == [pc |-> "idle", remote |-> "", caller |-> <<>>, callee |-> <<>>]

\* The record kept of a call.  ok: the call returned (no panic, no Err);
\* value: the number or flag returned; block: <<>> or <<the returned block>>;
\* fetched: the chains the call looked at; requested: the addresses the
\* call sent a request to; chain0, pending0, returned0, nodes0: the state
\* the call started in.
Call(op, arg, ok, value, block, fetched) ==
  [op |-> op, arg |-> arg, ok |-> ok, value |-> value, block |-> block,
   fetched |-> fetched, requested |-> {}, chain0 |-> chain,
   pending0 |-> pending_transactions, returned0 |-> returned,
   nodes0 |-> nodes]

(* ------------------------------ Blockchain ----------------------------- *)

last_block(c) == c[Len(c)]

\* mutant: the pending transactions are not copied into the block
new_block_without_pending(c, pending, proof, previous_hash, timestamp) ==
  LET h == IF previous_hash # <<>> THEN previous_hash[1]
           ELSE hash(c[Len(c)])
  IN  Block(Len(c) + 1, timestamp, <<>>, proof, h)

\* the block new_block builds; previous_hash is <<>> (None) or <<h>> (Some(h))
new_block(c, pending, proof, previous_hash, timestamp) ==
  LET h == IF previous_hash # <<>> THEN previous_hash[1]
           ELSE hash(last_block(c))
  IN  Block(Len(c) + 1, timestamp, pending, proof, h)

\* the value new_transaction returns
new_transaction(c) == Len(c)

\* the reward transaction mine adds to the pool
reward_transaction(node_uuid) ==
  Transaction_new(ORIGIN_SENDER, <<node_uuid>>, MINING_REWARD)

\* mutant: the genesis block is not created
Blockchain_new_without_genesis(timestamp) == <<>>

\* Blockchain::new: an empty chain, then the genesis block
Blockchain_new(timestamp) ==
  <<new_block(<<>>, <<>>, GENESIS_PROOF, <<ORIGIN_HASH>>, timestamp)>>

Init ==
  /\ \E t \in Times : chain = Blockchain_new(t)
  /\ pending_transactions = <<>>
  /\ nodes = {}
  /\ returned = <<>>
  /\ last = [op |-> "new", arg |-> <<>>, ok |-> TRUE, value |-> 0,
             block |-> <<>>, fetched |-> <<>>, requested |-> {},
             chain0 |-> <<>>, pending0 |-> <<>>, returned0 |-> <<>>,
             nodes0 |-> {}]
  /\ threads = [t \in Threads |-> Idle]
  /\ cluster = [workers |-> [h \in Hosts |-> [t \in Threads |-> IdleWorker]],
                  peer_nodes |-> {},
                  requests |-> 0,
                  client_timeout |-> FALSE]

NewTransaction ==
  /\ Len(pending_transactions) < MaxPending
  /\ LET t == UserTransaction(Len(pending_transactions))
     IN
       /\ pending_transactions' = Append(pending_transactions, t)
       /\ returned' = Append(returned, new_transaction(chain))
       /\ last' = Call("new_transaction", <<t>>, TRUE, new_transaction(chain),
                       <<>>, <<>>)
  /\ UNCHANGED <<chain, nodes, threads, cluster>>

\* mine: the search, the reward transaction, then new_block clears the pool
\* and pushes.  A search that does not end never reaches the push.
Mine ==
  /\ Len(chain) < MaxChain
  /\ \E node_uuid \in NodeUuids, t \in Times :
       IF Len(chain) = 0
       THEN \* last_block: expect("Chain is empty of blocks.") panics
            /\ last' = Call("mine", <<node_uuid>>, FALSE, 0, <<>>, <<>>)
            /\ UNCHANGED <<chain, pending_transactions, returned>>
       ELSE LET last_proof == last_block(chain).proof
                proof == proof_of_work(last_proof)
                pending == Append(pending_transactions,
                                  reward_transaction(node_uuid))
                block == new_block(chain, pending, proof, <<>>, t)
            IN  /\ proof # NoProof
                /\ chain' = Append(chain, block)
                /\ pending_transactions' = <<>>
                /\ returned' = <<>>
                /\ last' = Call("mine", <<node_uuid>>, TRUE, 0, <<block>>, <<>>)
  /\ UNCHANGED <<nodes, threads, cluster>>

(* ------------------------- what peers report --------------------------- *)

\* the chain of a peer that ran new() and then mined n - 1 blocks
RECURSIVE PeerMined(_)
PeerMined(n) ==
  IF n = 1 THEN Blockchain_new(0)
  ELSE LET c == PeerMined(n - 1)
           reward == reward_transaction(PeerUuid)
       IN  Append(c, new_block(c, <<reward>>,
                               proof_of_work(last_block(c).proof), <<>>, 0))

\* a chain that hash-links and seals like PeerMined(n) but numbers its
\* blocks from 0
RECURSIVE PeerZeroBased(_)
PeerZeroBased(n) ==
  IF n = 1 THEN <<[Blockchain_new(0)[1] EXCEPT !.index = 0]>>
  ELSE LET c == PeerZeroBased(n - 1)
           reward == reward_transaction(PeerUuid)
           b == new_block(c, <<reward>>, proof_of_work(last_block(c).proof),
                          <<>>, 0)
       IN  Append(c, [b EXCEPT !.index = Len(c)])

\* PeerMined(n) with the last block's previous_hash overwritten
PeerTampered(n) == [PeerMined(n) EXCEPT ![n].previous_hash = InvalidHash]

\* the bodies a GET /chain can deserialize to
PeerChains ==
  { <<>>, PeerMined(MaxPeerLen - 1), PeerMined(MaxPeerLen),
    PeerZeroBased(MaxPeerLen - 1), PeerTampered(MaxPeerLen) }

\* a failed fetch (unreachable peer, malformed body)
FetchError == <<"Err">>

\* what get_node_chain yields for a node: Err, or Ok(c) written <<"Ok", c>>.
\* A request to the node's own address is made while resolve holds the
\* exclusive lock the /chain handler waits for, so it yields no chain.
Responses(node) ==
  IF node = LocalAddr THEN {FetchError}
  ELSE {FetchError} \cup { <<"Ok", pc>> : pc \in PeerChains }

\* the orders in which a HashSet of nodes can be iterated
Orders(S) ==
  { o \in [1..Cardinality(S) -> S] :
      \A i, j \in 1..Cardinality(S) : i # j => o[i] # o[j] }

(* ---------------------------- P2PNodeManager --------------------------- *)

\* mutant: the sweep ends at the first failed fetch
RECURSIVE filter_map_ok_until_error(_)
filter_map_ok_until_error(results) ==
  IF results = <<>> THEN <<>>
  ELSE IF Head(results) = <<"Err">> THEN <<>>
  ELSE <<Head(results)[2]>> \o filter_map_ok_until_error(Tail(results))

\* get_chains: fetch from every node in iteration order, keep the Ok ones
RECURSIVE filter_map_ok(_)
filter_map_ok(results) ==
  IF results = <<>> THEN <<>>
  ELSE IF Head(results) = FetchError THEN filter_map_ok(Tail(results))
  ELSE <<Head(results)[2]>> \o filter_map_ok(Tail(results))

get_chains(order, response) ==
  filter_map_ok([i \in 1..Len(order) |-> response[order[i]]])

\* mutant: the node is inserted before the handshake is tried
add_node_insert_first(S, remote, handshake) ==
  IF remote \notin S
  THEN [nodes |-> S \cup {remote}, ok |-> handshake,
        value |-> IF handshake THEN 1 ELSE 0, requested |-> {remote}]
  ELSE [nodes |-> S, ok |-> TRUE, value |-> 0, requested |-> {}]

\* add_node on the set S; handshake: whether register_remote's POST to the
\* remote succeeds.  Ok(true) (value 1) when inserted, Ok(false) (value 0)
\* when already known, Err (ok FALSE) when the handshake fails.
add_node(S, remote, handshake) ==
  IF remote \notin S
  THEN IF handshake
       THEN [nodes |-> S \cup {remote}, ok |-> TRUE, value |-> 1,
             requested |-> {remote}]
       ELSE [nodes |-> S, ok |-> FALSE, value |-> 0, requested |-> {remote}]
  ELSE [nodes |-> S, ok |-> TRUE, value |-> 0, requested |-> {}]

AddNode ==
  /\ \E remote \in AllAddrs, handshake \in BOOLEAN :
       LET res == add_node(nodes, remote, handshake)
       IN  /\ nodes' = res.nodes
           /\ last' = [Call("add_node", <<remote, handshake>>, res.ok,
                            res.value, <<>>, <<>>)
                         EXCEPT !.requested = res.requested]
  /\ UNCHANGED <<chain, pending_transactions, returned, threads, cluster>>

(* --------------------------- resolve_conflicts ------------------------- *)

\* mutant: a candidate of equal length is accepted too
is_not_shorter_and_valid(candidate, c) ==
  Len(candidate) >= Len(c) /\ validate_chain(candidate)

\* mutant: any candidate of another length is accepted
is_other_length_and_valid(candidate, c) ==
  Len(candidate) # Len(c) /\ validate_chain(candidate)

\* mutant: the lengths are not compared
is_valid(candidate, c) == validate_chain(candidate)

\* the closure given to find
is_longer_and_valid(candidate, c) ==
  Len(candidate) > Len(c) /\ validate_chain(candidate)

\* mutant: the last element accepted is taken
find_last(fetched, c) ==
  LET hits == { i \in 1..Len(fetched) :
                  Len(fetched[i]) > Len(c) /\ validate_chain(fetched[i]) }
  IN  IF hits = {} THEN 0
      ELSE CHOOSE i \in hits : \A j \in hits : i >= j

\* Iterator::find: the position of the first element accepted, 0 for None
find(fetched, c) ==
  LET hits == { i \in 1..Len(fetched) : is_longer_and_valid(fetched[i], c) }
  IN  IF hits = {} THEN 0
      ELSE CHOOSE i \in hits : \A j \in hits : i <= j

\* the chain resolve_conflicts leaves and the flag it returns (1 for true)
resolve_conflicts(fetched, c) ==
  IF find(fetched, c) # 0
  THEN [chain |-> fetched[find(fetched, c)], replaced |-> 1]
  ELSE [chain |-> c, replaced |-> 0]

\* mutant: the pool is dropped when the chain is replaced
resolve_conflicts_pool_cleared(pending, replaced) ==
  IF replaced = 1 THEN <<>> ELSE pending

\* the pool resolve_conflicts leaves: only self.chain is assigned
resolve_conflicts_pool(pending, replaced) == pending

\* every result get_chains can have for the known nodes
Fetches(S) ==
  { get_chains(order, response) :
      order \in Orders(S),
      response \in { r \in [S -> UNION { Responses(n) : n \in S }] :
                       \A n \in S : r[n] \in Responses(n) } }

Resolve ==
  /\ \E fetched \in Fetches(nodes) :
       LET res == resolve_conflicts(fetched, chain)
       IN  /\ chain' = res.chain
           /\ pending_transactions' =
                resolve_conflicts_pool(pending_transactions, res.replaced)
           /\ last' = [Call("resolve", <<>>, TRUE, res.replaced, <<>>,
                            fetched)
                         EXCEPT !.requested = nodes]
  /\ UNCHANGED <<nodes, returned, threads, cluster>>

Next == NewTransaction \/ Mine \/ AddNode \/ Resolve

Spec == Init /\ [][Next]_vars

(* ------------------ resolve with the peers' answers kept --------------- *)

\* what each known node answers to GET /chain
ResponseMaps(S) ==
  { r \in [S -> UNION { Responses(n) : n \in S }] :
      \A n \in S : r[n] \in Responses(n) }

\* resolve_conflicts as in Resolve; the call's record keeps the answers
ResolveAnswered ==
  /\ \E order \in Orders(nodes), response \in ResponseMaps(nodes) :
       LET fetched == get_chains(order, response)
           res == resolve_conflicts(fetched, chain)
       IN  /\ chain' = res.chain
           /\ pending_transactions' =
                resolve_conflicts_pool(pending_transactions, res.replaced)
           /\ last' = [Call("resolve", <<response>>, TRUE, res.replaced,
                            <<>>, fetched)
                         EXCEPT !.requested = nodes]
  /\ UNCHANGED <<nodes, returned, threads, cluster>>

NextNet == NewTransaction \/ AddNode \/ ResolveAnswered

SpecNet == Init /\ [][NextNet]_vars

(* ------------------- tests::validate_chain, generalized ---------------- *)

\* the seals a block's proof is overwritten with
MaxTamperProof == 10

TamperProofs == 0..MaxTamperProof

\* the strings a block's previous_hash is overwritten with
TamperHashes(c) == {InvalidHash, ORIGIN_HASH} \cup { hash(c[i]) : i \in 1..Len(c) }

\* copy the chain, overwrite one block's proof, validate the copy
TamperProof ==
  /\ \E i \in 1..Len(chain), p \in TamperProofs :
       LET copy == [chain EXCEPT ![i].proof = p]
       IN  /\ p # chain[i].proof
           /\ last' = Call("tamper_proof", <<i, p>>, TRUE,
                           IF validate_chain(copy) THEN 1 ELSE 0, <<>>,
                           <<copy>>)
  /\ UNCHANGED <<chain, pending_transactions, nodes, returned, threads, cluster>>

\* copy the chain, overwrite one block's previous_hash, validate the copy
TamperHash ==
  /\ \E i \in 1..Len(chain), h \in TamperHashes(chain) :
       LET copy == [chain EXCEPT ![i].previous_hash = h]
       IN  /\ h # chain[i].previous_hash
           /\ last' = Call("tamper_hash", <<i, h>>, TRUE,
                           IF validate_chain(copy) THEN 1 ELSE 0, <<>>,
                           <<copy>>)
  /\ UNCHANGED <<chain, pending_transactions, nodes, returned, threads, cluster>>

NextTamper == NewTransaction \/ Mine \/ TamperProof \/ TamperHash

SpecTamper == Init /\ [][NextTamper]_vars

(* ---------------------- the functions on their own --------------------- *)

\* the seals proof_of_work is asked about
MaxSeal == 60

Seals == 0..MaxSeal

\* proof_of_work(last_proof); a search that passes SearchCap stands for
\* one that does not return
ProofOfWork ==
  /\ \E last_proof \in Seals :
       LET proof == proof_of_work(last_proof)
       IN  last' = Call("proof_of_work", <<last_proof>>, proof # NoProof,
                        proof, <<>>, <<>>)
  /\ UNCHANGED <<chain, pending_transactions, nodes, returned, threads, cluster>>

\* the vectors validate_chain is called with
ValidateInputs == PeerChains \cup {PeerMined(1)}

\* &chain[1..] panics when the vector is empty (range start 1 > len 0);
\* otherwise the flag of all(..), 1 for true
validate_chain_call(c) ==
  IF Len(c) < 1 THEN [ok |-> FALSE, value |-> 0]
  ELSE [ok |-> TRUE, value |-> IF validate_chain(c) THEN 1 ELSE 0]

ValidateChain ==
  /\ \E c \in ValidateInputs :
       LET res == validate_chain_call(c)
       IN  last' = Call("validate_chain", <<c>>, res.ok, res.value, <<>>,
                        <<>>)
  /\ UNCHANGED <<chain, pending_transactions, nodes, returned, threads, cluster>>

\* tests::hash_blockchain_determinism and hash_blockchain_variability:
\* the hash of a block, of its clone, and of the block after a push to its
\* transactions
HashBlock ==
  /\ \E c \in ValidateInputs, i \in 1..MaxPeerLen, k \in 0..MaxPending :
       /\ i <= Len(c)
       /\ LET block == c[i]
              block2 == Block(block.index, block.timestamp,
                              block.transactions, block.proof,
                              block.previous_hash)
              pushed == [block EXCEPT
                           !.transactions = Append(@, UserTransaction(k))]
          IN  last' = Call("hash", <<block, block2, pushed>>, TRUE, 0, <<>>,
                           <<hash(block), hash(block2), hash(pushed)>>)
  /\ UNCHANGED <<chain, pending_transactions, nodes, returned, threads, cluster>>

(* -------------------- last_proof * proof on 64 bits -------------------- *)

\* a u64 is kept as its eight bytes, least significant first
U64_BYTES == 8

BYTE == 256

RECURSIVE to_bytes(_, _)
to_bytes(n, k) ==
  IF k = 0 THEN <<>> ELSE <<n % BYTE>> \o to_bytes(n \div BYTE, k - 1)

u64(n) == to_bytes(n, U64_BYTES)

\* 2^e as a u64
u64_pow2(e) ==
  [i \in 1..U64_BYTES |->
     IF i = (e \div 8) + 1 THEN 2 ^ (e % 8) ELSE 0]

U64_MAX == [i \in 1..U64_BYTES |-> BYTE - 1]

\* the sum of the byte products a[i] * b[j] with i + j = k + 1
RECURSIVE mul_column(_, _, _, _)
mul_column(a, b, k, i) ==
  IF i > Len(a) THEN 0
  ELSE (IF (k + 1 - i) \in 1..Len(b) THEN a[i] * b[k + 1 - i] ELSE 0)
         + mul_column(a, b, k, i + 1)

RECURSIVE carry_bytes(_, _)
carry_bytes(columns, carry) ==
  IF columns = <<>> THEN <<>>
  ELSE LET v == Head(columns) + carry
       IN  <<v % BYTE>> \o carry_bytes(Tail(columns), v \div BYTE)

\* the exact product, sixteen bytes
full_mul(a, b) ==
  carry_bytes([k \in 1..(2 * U64_BYTES) |-> mul_column(a, b, k, 1)], 0)

\* the exact product does not fit 64 bits
overflows(product) ==
  \E k \in (U64_BYTES + 1)..Len(product) : product[k] # 0

\* the exact product modulo 2^64
wrapped(product) == SubSeq(product, 1, U64_BYTES)

\* one step of the division by ten, most significant byte first
RECURSIVE div10(_, _)
div10(x, r) ==
  IF x = <<>> THEN [q |-> <<>>, r |-> r]
  ELSE LET v == r * BYTE + Head(x)
           rest == div10(Tail(x), v % 10)
       IN  [q |-> <<v \div 10>> \o rest.q, r |-> rest.r]

RECURSIVE format_bytes(_)
format_bytes(x) ==
  LET d == div10(x, 0)
  IN  IF \A i \in 1..Len(d.q) : d.q[i] = 0 THEN <<d.r>>
      ELSE Append(format_bytes(d.q), d.r)

\* format!("{}", x) of a u64: its decimal digits
format_u64(x) == format_bytes([i \in 1..Len(x) |-> x[Len(x) + 1 - i]])

\* valid_proof on u64 operands.  The operator * panics on overflow when
\* the build has overflow checks (debug profile) and wraps when it has not
\* (release profile).
valid_proof_u64(last_proof, proof, overflow_checks) ==
  LET product == full_mul(last_proof, proof)
      guess == format_u64(wrapped(product))
  IN  IF overflow_checks /\ overflows(product)
      THEN [ok |-> FALSE, value |-> 0]
      ELSE [ok |-> TRUE,
            value |-> IF ends_with(Sha256_result_str(guess), PROOF_SUFFIX)
                      THEN 1 ELSE 0]

\* the u64 values valid_proof is asked about
U64Values ==
  { u64(0), u64(1), u64(5), u64(GENESIS_PROOF), u64_pow2(32), u64_pow2(63),
    U64_MAX }

ValidProof ==
  /\ \E last_proof \in U64Values, proof \in U64Values,
        overflow_checks \in BOOLEAN :
       LET res == valid_proof_u64(last_proof, proof, overflow_checks)
       IN  last' = Call("valid_proof", <<last_proof, proof, overflow_checks>>,
                        res.ok, res.value, <<>>, <<>>)
  /\ UNCHANGED <<chain, pending_transactions, nodes, returned, threads, cluster>>

NextPure == ProofOfWork \/ ValidateChain \/ HashBlock \/ ValidProof

SpecPure == Init /\ [][NextPure]_vars

(* ------------- the Blockchain of main.rs, used by the routes ----------- *)

\* Block::append_transaction
append_transaction(block, txn) ==
  [block EXCEPT !.transactions = Append(@, txn)]

\* main.rs new_transaction: the transaction goes into the last block; the
\* chain it leaves and the index it returns
new_transaction_main(c, txn) ==
  [chain |-> [c EXCEPT ![Len(c)] = append_transaction(@, txn)],
   value |-> last_block(c).index + 1]

NewTransactionMain ==
  /\ Len(last_block(chain).transactions) < MaxPending
  /\ LET t == UserTransaction(Len(last_block(chain).transactions))
         res == new_transaction_main(chain, t)
     IN  /\ chain' = res.chain
         /\ last' = Call("new_transaction", <<t>>, TRUE, res.value, <<>>,
                         <<>>)
  /\ UNCHANGED <<pending_transactions, nodes, returned, threads, cluster>>

\* main.rs mine: the search, the reward through new_transaction, new_block
MineMain ==
  /\ Len(chain) < MaxChain
  /\ \E node_uuid \in NodeUuids, t \in Times :
       LET last_proof == last_block(chain).proof
           proof == proof_of_work(last_proof)
           paid == new_transaction_main(chain,
                                        reward_transaction(node_uuid)).chain
           block == new_block(paid, pending_transactions, proof, <<>>, t)
       IN  /\ proof # NoProof
           /\ chain' = Append(paid, block)
           /\ pending_transactions' = <<>>
           /\ last' = Call("mine", <<node_uuid>>, TRUE, 0, <<block>>, <<>>)
  /\ UNCHANGED <<nodes, returned, threads, cluster>>

\* main.rs NodeManager::add_node: insert, return the size of the set
AddNodeMain ==
  /\ \E node \in AllAddrs :
       /\ nodes' = nodes \cup {node}
       /\ last' = Call("add_node", <<node>>, TRUE,
                       Cardinality(nodes \cup {node}), <<>>, <<>>)
  /\ UNCHANGED <<chain, pending_transactions, returned, threads, cluster>>

NextMain == NewTransactionMain \/ MineMain \/ AddNodeMain

SpecMain == Init /\ [][NextMain]_vars

(* ---------------- the routes, each under the write lock ---------------- *)

\* the routes that take state.blockchain.write()
Routes == {"mine", "resolve", "new_transaction", "add_node"}

\* mutant: the write guard is handed out while another thread holds one
can_write_unlocked(ths, t) == TRUE

\* RwLock::write returns once no other thread holds a guard; a thread holds
\* its guard from the start of its request to its last step
can_write(ths, t) == \A u \in Threads \ {t} : ths[u].pc = "idle"

\* a request arrives and its thread gets the write guard
Begin(t) ==
  /\ threads[t].pc = "idle"
  /\ can_write(threads, t)
  /\ \E route \in Routes :
       /\ route = "mine" => Len(chain) < MaxChain
       /\ route = "new_transaction" => Len(pending_transactions) < MaxPending
       /\ threads' = [threads EXCEPT ![t].pc = route]
  /\ UNCHANGED <<chain, pending_transactions, nodes, returned, last, cluster>>

\* mine: let last_proof = self.last_block().proof
MineRead(t) ==
  /\ threads[t].pc = "mine"
  /\ Len(chain) > 0
  /\ threads' = [threads EXCEPT ![t] =
                   [pc |-> "mine_search",
                    last_proof |-> last_block(chain).proof,
                    proof |-> 0, read |-> chain]]
  /\ UNCHANGED <<chain, pending_transactions, nodes, returned, last, cluster>>

\* mine: proof_of_work, then the reward goes to the pool
MineSearch(t) ==
  /\ threads[t].pc = "mine_search"
  /\ \E node_uuid \in NodeUuids :
       LET proof == proof_of_work(threads[t].last_proof)
       IN  /\ proof # NoProof
           /\ pending_transactions' =
                Append(pending_transactions, reward_transaction(node_uuid))
           /\ threads' = [threads EXCEPT ![t].pc = "mine_push",
                                         ![t].proof = proof]
  /\ UNCHANGED <<chain, nodes, returned, last, cluster>>

\* mine: new_block builds the block on the chain as it is now, clears the
\* pool and pushes; the guard is dropped
MinePush(t) ==
  /\ threads[t].pc = "mine_push"
  /\ Len(chain) < MaxChain
  /\ \E tm \in Times :
       LET block == new_block(chain, pending_transactions, threads[t].proof,
                              <<>>, tm)
       IN  /\ chain' = Append(chain, block)
           /\ pending_transactions' = <<>>
           /\ returned' = <<>>
           /\ last' = Call("mine", <<threads[t].last_proof>>, TRUE, 0,
                           <<block>>, <<threads[t].read>>)
  /\ threads' = [threads EXCEPT ![t] = Idle]
  /\ UNCHANGED <<nodes, cluster>>

\* resolve_conflicts, then the guard is dropped
ResolveLocked(t) ==
  /\ threads[t].pc = "resolve"
  /\ \E fetched \in Fetches(nodes) :
       LET res == resolve_conflicts(fetched, chain)
       IN  /\ chain' = res.chain
           /\ pending_transactions' =
                resolve_conflicts_pool(pending_transactions, res.replaced)
           /\ last' = Call("resolve", <<>>, TRUE, res.replaced, <<>>, <<>>)
  /\ threads' = [threads EXCEPT ![t] = Idle]
  /\ UNCHANGED <<nodes, returned, cluster>>

\* new_transaction, then the guard is dropped
NewTransactionLocked(t) ==
  /\ threads[t].pc = "new_transaction"
  /\ Len(pending_transactions) < MaxPending
  /\ LET txn == UserTransaction(Len(pending_transactions))
     IN  /\ pending_transactions' = Append(pending_transactions, txn)
         /\ returned' = Append(returned, new_transaction(chain))
         /\ last' = Call("new_transaction", <<txn>>, TRUE,
                         new_transaction(chain), <<>>, <<>>)
  /\ threads' = [threads EXCEPT ![t] = Idle]
  /\ UNCHANGED <<chain, nodes, cluster>>

\* add_node, then the guard is dropped
AddNodeLocked(t) ==
  /\ threads[t].pc = "add_node"
  /\ \E remote \in AllAddrs, handshake \in BOOLEAN :
       LET res == add_node(nodes, remote, handshake)
       IN  /\ nodes' = res.nodes
           /\ last' = Call("add_node", <<remote>>, res.ok, res.value, <<>>,
                           <<>>)
  /\ threads' = [threads EXCEPT ![t] = Idle]
  /\ UNCHANGED <<chain, pending_transactions, returned, cluster>>

NextConc ==
  \E t \in Threads :
    \/ Begin(t)
    \/ MineRead(t)
    \/ MineSearch(t)
    \/ MinePush(t)
    \/ ResolveLocked(t)
    \/ NewTransactionLocked(t)
    \/ AddNodeLocked(t)

SpecConc == Init /\ [][NextConc]_vars

(* -------- POST /node/register between two nodes of this program ------- *)

\* the register requests counted; from there on the count stays
MaxRequests == 4

\* self.nodes of a host
registry(h) == IF h = LocalAddr THEN nodes ELSE cluster.peer_nodes

\* the write guard of a host is held from the handler's write() to its end
holds_guard(w) == w.pc \in {"holding", "waiting", "answered"}

\* a handler ends: its guard is dropped, and a response goes to the caller
\* that still waits for one
finish(workers, h, t) ==
  LET c == workers[h][t].caller
      ended == [workers EXCEPT ![h][t] = IdleWorker]
  IN  IF Len(c) = 2 THEN [ended EXCEPT ![c[1]][c[2]].pc = "answered"]
      ELSE ended

\* a client posts the peer's address to this node; the build's Client
\* gives up on a request after a while, or never
ClientRegister ==
  /\ cluster.requests = 0
  /\ \E t \in Threads, client_timeout \in BOOLEAN :
       cluster' =
         [cluster EXCEPT
            !.workers[LocalAddr][t] =
               [pc |-> "queued", remote |-> PeerHost,
                caller |-> <<"client">>, callee |-> <<>>],
            !.requests = 1,
            !.client_timeout = client_timeout]
  /\ UNCHANGED <<chain, pending_transactions, nodes, returned, last, threads>>

\* node_register: state.blockchain.write() returns
Acquire(h, t) ==
  /\ cluster.workers[h][t].pc = "queued"
  /\ \A u \in Threads \ {t} : ~holds_guard(cluster.workers[h][u])
  /\ cluster' = [cluster EXCEPT !.workers[h][t].pc = "holding"]
  /\ UNCHANGED <<chain, pending_transactions, nodes, returned, last, threads>>

\* add_node, else branch: the node is known, Ok(false)
AlreadyKnown(h, t) ==
  LET w == cluster.workers[h][t]
  IN  /\ w.pc = "holding"
      /\ w.remote \in registry(h)
      /\ cluster' = [cluster EXCEPT !.workers = finish(@, h, t)]
      /\ last' = Call("add_node", <<h, w.remote>>, TRUE, 0, <<>>, <<>>)
      /\ UNCHANGED <<chain, pending_transactions, nodes, returned, threads>>

\* add_node, then branch: register_remote posts self.local to the remote
\* node and blocks in send(); a worker of the remote node takes the request
SendRegister(h, t) ==
  LET w == cluster.workers[h][t]
  IN  /\ w.pc = "holding"
      /\ w.remote \notin registry(h)
      /\ \E u \in Threads :
           /\ cluster.workers[w.remote][u].pc = "idle"
           /\ cluster' =
                [cluster EXCEPT
                   !.workers[h][t].pc = "waiting",
                   !.workers[h][t].callee = <<w.remote, u>>,
                   !.workers[w.remote][u] =
                      [pc |-> "queued", remote |-> h, caller |-> <<h, t>>,
                       callee |-> <<>>],
                   !.requests = IF @ < MaxRequests THEN @ + 1 ELSE @]
      /\ UNCHANGED <<chain, pending_transactions, nodes, returned, last,
                     threads>>

\* send() returned a response: map inserts the remote, add_node returns
\* Ok(true)
Answered(h, t) ==
  LET w == cluster.workers[h][t]
  IN  /\ w.pc = "answered"
      /\ nodes' = IF h = LocalAddr THEN nodes \cup {w.remote} ELSE nodes
      /\ cluster' =
           [cluster EXCEPT
              !.workers = finish(@, h, t),
              !.peer_nodes = IF h = LocalAddr THEN @ ELSE @ \cup {w.remote}]
      /\ last' = Call("add_node", <<h, w.remote>>, TRUE, 1, <<>>, <<>>)
      /\ UNCHANGED <<chain, pending_transactions, returned, threads>>

\* send() gave up: the Err is returned, nothing is inserted; the remote
\* handler keeps running with nobody to answer
TimedOut(h, t) ==
  LET w == cluster.workers[h][t]
  IN  /\ w.pc = "waiting"
      /\ cluster.client_timeout
      /\ cluster' =
           [cluster EXCEPT
              !.workers =
                 finish([@ EXCEPT ![w.callee[1]][w.callee[2]].caller = <<>>],
                        h, t)]
      /\ last' = Call("add_node", <<h, w.remote>>, FALSE, 0, <<>>, <<>>)
      /\ UNCHANGED <<chain, pending_transactions, nodes, returned, threads>>

HandlerStep ==
  \E h \in Hosts, t \in Threads :
    \/ Acquire(h, t)
    \/ AlreadyKnown(h, t)
    \/ SendRegister(h, t)
    \/ Answered(h, t)
    \/ TimedOut(h, t)

NextHandshake == ClientRegister \/ HandlerStep

\* every worker thread runs, responses arrive, and a Client that has a
\* timeout gives up in the end
SpecHandshake ==
  /\ Init
  /\ [][NextHandshake]_vars
  /\ \A h \in Hosts, t \in Threads :
       /\ WF_vars(Acquire(h, t))
       /\ WF_vars(AlreadyKnown(h, t))
       /\ WF_vars(SendRegister(h, t))
       /\ WF_vars(Answered(h, t))
       /\ WF_vars(TimedOut(h, t))

(* ------------------------------- claims -------------------------------- *)

\* positions 1..Len(fetched) of the chains that are strictly longer than c
\* and whose every adjacent pair links by hash and by seal
LongerValid(fetched, c) ==
  { i \in 1..Len(fetched) :
      /\ Len(fetched[i]) > Len(c)
      /\ \A k \in 1..(Len(fetched[i]) - 1) :
           /\ fetched[i][k + 1].previous_hash = hash(fetched[i][k])
           /\ valid_proof(fetched[i][k + 1].proof, fetched[i][k].proof) }

\* C1: in every reachable state each adjacent pair (a, b) of the local chain
\* has b.previous_hash = hash(a) and valid_proof(b.proof, a.proof).
C1_LocalChainValid ==
  \A i \in 1..(Len(chain) - 1) :
    /\ chain[i + 1].previous_hash = hash(chain[i])
    /\ valid_proof(chain[i + 1].proof, chain[i].proof)

\* a block was mined on top of a chain taken from a peer
C1_Witness ==
  /\ last.op = "mine"
  /\ last.ok
  /\ Len(chain) = 3
  /\ last.chain0 = PeerMined(2)

\* C2: the block mine appends and returns holds the pool as it was, in
\* order, followed by the reward {"0", miner, 1}; the pool is then empty.
C2_MineTakesPoolPlusReward ==
  (last.op = "mine" /\ last.ok) =>
    /\ last.block[1].transactions =
         last.pending0 \o
         <<[sender |-> <<"0">>, recipient |-> last.arg, amount |-> 1]>>
    /\ chain = Append(last.chain0, last.block[1])
    /\ pending_transactions = <<>>

\* mine ran with two different transactions pending
C2_Witness ==
  /\ last.op = "mine"
  /\ last.ok
  /\ Len(last.pending0) = 2
  /\ last.pending0[1] # last.pending0[2]

\* C3: when no fetched chain is both strictly longer than the local chain
\* and valid, resolve returns false and the chain is what it was.
C3_ResolveNoCandidate ==
  (last.op = "resolve" /\ LongerValid(last.fetched, last.chain0) = {}) =>
    /\ last.value = 0
    /\ chain = last.chain0

\* resolve saw a longer chain that is not valid and a valid one that is not
\* longer, and kept the local chain
C3_Witness ==
  /\ last.op = "resolve"
  /\ last.value = 0
  /\ Len(last.chain0) = 2
  /\ \E i, j \in 1..Len(last.fetched) :
       /\ last.fetched[i] = PeerTampered(MaxPeerLen)
       /\ last.fetched[j] = PeerMined(2)
       /\ last.fetched[j] # last.chain0

\* C4: resolve returns true exactly when some fetched chain is strictly
\* longer and valid, and the local chain is then the first such chain.
C4_ResolveTakesFirst ==
  (last.op = "resolve") =>
    LET good == LongerValid(last.fetched, last.chain0)
    IN  /\ (last.value = 1) <=> (good # {})
        /\ good # {} =>
             \E i \in good : /\ \A j \in good : i <= j
                             /\ chain = last.fetched[i]

\* two different candidates qualified and the first one was taken
C4_Witness ==
  /\ last.op = "resolve"
  /\ last.value = 1
  /\ Len(last.fetched) = 2
  /\ LongerValid(last.fetched, last.chain0) = {1, 2}
  /\ last.fetched[1] # last.fetched[2]
  /\ chain = last.fetched[1]

\* C5: after resolve returns, no valid chain fetched in that call is
\* strictly longer than the local chain.
C5_LongestValidWins ==
  (last.op = "resolve") => LongerValid(last.fetched, chain) = {}

\* C6: what add_transaction returned for a transaction is the index of the
\* block the next mine puts it in.
C6_ReturnedIndexIsBlockIndex ==
  (last.op = "mine" /\ last.ok) =>
    \A i \in 1..Len(last.returned0) :
      last.returned0[i] = last.block[1].index

\* C7 as stated: on a mined chain of two or more blocks, overwriting any
\* block's seal with another value, or any block's previous_hash with
\* another string, makes validate return false.
C7_AnyTamperingInvalidates ==
  (last.op \in {"tamper_proof", "tamper_hash"} /\ Len(last.chain0) >= 2) =>
    last.value = 0

\* C7 amended: validate returns false when any previous_hash is overwritten
\* with another string, when the seal of a block other than the last is
\* overwritten with another value, and when the seal of the last block is
\* overwritten with a value the predicate rejects against its predecessor.
C7_TamperingInvalidates ==
  /\ (last.op = "tamper_hash" /\ Len(last.chain0) >= 2) => last.value = 0
  /\ (last.op = "tamper_proof" /\ Len(last.chain0) >= 2) =>
       LET i == last.arg[1]
           p == last.arg[2]
       IN  (\/ i < Len(last.chain0)
            \/ ~valid_proof(p, last.chain0[i - 1].proof)) => last.value = 0

\* the seal of the middle block of a three-block chain was overwritten
C7_Witness ==
  /\ last.op = "tamper_proof"
  /\ Len(last.chain0) = 3
  /\ last.arg[1] = 2
  /\ last.value = 0

\* C8: the block at position N of the local chain has index N.
C8_IndexIsPosition ==
  \A i \in 1..Len(chain) : chain[i].index = i

\* C9: a new ledger holds the genesis block alone: index 1, seal 100,
\* previous_hash "1", no transactions; the pool is empty.
C9_FreshLedger ==
  (last.op = "new") =>
    /\ Len(chain) = 1
    /\ chain[1].index = 1
    /\ chain[1].proof = 100
    /\ chain[1].previous_hash = <<"1">>
    /\ chain[1].transactions = <<>>
    /\ pending_transactions = <<>>

\* the state right after construction
C9_Witness ==
  /\ last.op = "new"
  /\ Len(chain) = 1
  /\ nodes = {}

\* C10: the local chain is never empty and mine never meets the
\* "Chain is empty of blocks." failure of last_block.
C10_ChainNonEmpty ==
  /\ Len(chain) >= 1
  /\ (last.op = "mine") => last.ok

\* resolve was offered an empty chain and a qualifying one, and replaced
\* the local chain
C10_Witness ==
  /\ last.op = "resolve"
  /\ last.value = 1
  /\ \E i \in 1..Len(last.fetched) : last.fetched[i] = <<>>
  /\ chain # last.chain0

\* C11: add_node changes the set only for an unknown peer whose handshake
\* succeeds (peer added, Ok(true)); a known peer leaves the set as it is,
\* sends nothing and yields Ok(false); a failed handshake leaves the set as
\* it is and yields Err.
C11_RegisterOutcomes ==
  (last.op = "add_node") =>
    LET remote == last.arg[1]
        handshake == last.arg[2]
    IN  /\ (nodes # last.nodes0) => (remote \notin last.nodes0 /\ handshake)
        /\ (remote \notin last.nodes0 /\ handshake) =>
             /\ nodes = last.nodes0 \cup {remote}
             /\ last.ok
             /\ last.value = 1
        /\ (remote \in last.nodes0) =>
             /\ nodes = last.nodes0
             /\ last.requested = {}
             /\ last.ok
             /\ last.value = 0
        /\ (remote \notin last.nodes0 /\ ~handshake) =>
             /\ nodes = last.nodes0
             /\ ~last.ok

\* the handshake with an unknown peer failed while another peer was known
C11_Witness ==
  /\ last.op = "add_node"
  /\ last.arg[1] \notin last.nodes0
  /\ ~last.arg[2]
  /\ last.nodes0 # {}
  /\ ~last.ok

\* C13: the pool after resolve is the pool before it, whatever it returns.
C13_ResolveKeepsPool ==
  (last.op = "resolve") => pending_transactions = last.pending0

\* resolve replaced the chain while two transactions were pending
C13_Witness ==
  /\ last.op = "resolve"
  /\ last.value = 1
  /\ chain # last.chain0
  /\ Len(pending_transactions) = 2

\* C14: the peer set never holds the node's own address, and resolve sends
\* no fetch to the node itself.
C14_NeverRegistersSelf ==
  /\ LocalAddr \notin nodes
  /\ (last.op = "resolve") => LocalAddr \notin last.requested

\* C12: get_chains yields one chain for each known node whose fetch
\* succeeded and none for a node whose fetch failed, whatever the failures;
\* resolve reports no error, and with every fetch failed it returns false
\* and leaves the chain and the pool as they were.
C12_FailedFetchesDropped ==
  (last.op = "resolve") =>
    LET response == last.arg[1]
        answered == { n \in last.nodes0 : response[n] # <<"Err">> }
    IN  /\ last.ok
        /\ Len(last.fetched) = Cardinality(answered)
        /\ \A n \in answered :
             Cardinality({ i \in 1..Len(last.fetched) :
                             last.fetched[i] = response[n][2] }) =
             Cardinality({ k \in answered : response[k] = response[n] })
        /\ answered = {} =>
             /\ last.fetched = <<>>
             /\ last.value = 0
             /\ chain = last.chain0
             /\ pending_transactions = last.pending0

\* of two known peers one failed and the other's chain was fetched, with a
\* transaction pending
C12_Witness ==
  /\ last.op = "resolve"
  /\ PeerAddrs \subseteq last.nodes0
  /\ \E n, k \in PeerAddrs :
       /\ last.arg[1][n] = <<"Err">>
       /\ last.arg[1][k] # <<"Err">>
       /\ last.fetched = <<last.arg[1][k][2]>>
  /\ pending_transactions # <<>>

\* C15: with concurrent mine, resolve and new_transaction requests, the
\* block a mine pushes carries the hash of the block that is last in the
\* chain at the push and a seal accepted against that block's seal, and
\* the chain is not replaced between mine's read of the last block and its
\* push: the chain at the push is the chain mine read.
C15_MineAtomic ==
  /\ (last.op = "mine" /\ last.ok) =>
       LET block == last.block[1]
           before == last_block(last.chain0)
       IN  /\ block.previous_hash = hash(before)
           /\ valid_proof(before.proof, block.proof)
           /\ last.fetched = <<last.chain0>>
  /\ \A t \in Threads :
       threads[t].pc \in {"mine_search", "mine_push"} =>
         threads[t].read = chain

\* a block was pushed on a chain that a resolve took from a peer, with a
\* transaction that was in the pool before the replacement, and the other
\* thread has the next request
C15_Witness ==
  /\ last.op = "mine"
  /\ last.ok
  /\ last.chain0 = PeerMined(2)
  /\ Len(last.block[1].transactions) = 2
  /\ \E t \in Threads : threads[t].pc = "resolve"

\* C16: when proof_of_work returns, the value it returns is accepted by
\* valid_proof against last_proof and no smaller candidate is.
C16_SmallestAccepted ==
  (last.op = "proof_of_work" /\ last.ok) =>
    /\ last.value >= 0
    /\ valid_proof(last.arg[1], last.value)
    /\ \A c \in 0..(last.value - 1) : ~valid_proof(last.arg[1], c)

\* a search with more than one accepted candidate below the cap returned
C16_Witness ==
  /\ last.op = "proof_of_work"
  /\ last.ok
  /\ last.value > 1
  /\ \E c \in (last.value + 1)..SearchCap : valid_proof(last.arg[1], c)

\* C17: validate_chain returns a flag for every vector of blocks, the empty
\* one included, and returns true for a vector of one block.
C17_ValidateTotal ==
  (last.op = "validate_chain") =>
    /\ last.ok
    /\ Len(last.arg[1]) = 1 => last.value = 1

\* C18: new_transaction appends the given transaction at the end of the
\* pending pool and leaves the chain, the last block's transactions
\* included, as it was.
C18_TransactionGoesToPool ==
  (last.op = "new_transaction") =>
    /\ chain = last.chain0
    /\ pending_transactions = Append(last.pending0, last.arg[1])

\* C19: a block and a block built from the same five fields have the same
\* hash; a block and the same block with one more transaction have
\* different hashes.
C19_HashOfFields ==
  (last.op = "hash") =>
    /\ last.fetched[1] = last.fetched[2]
    /\ last.fetched[1] # last.fetched[3]

\* a block that already holds a transaction was hashed
C19_Witness ==
  /\ last.op = "hash"
  /\ last.arg[1].transactions # <<>>
  /\ last.arg[1].index > 1

\* C20: valid_proof returns for every pair of u64 values, and its flag is
\* the one of the decimal digits of the product modulo 2^64.
C20_ProductWraps ==
  (last.op = "valid_proof") =>
    /\ last.ok
    /\ last.value =
         valid_proof_u64(last.arg[1], last.arg[2], FALSE).value

\* C21: once this node is asked to register a peer that runs the same
\* program, the handshake ends: the call returns, no more register requests
\* are sent and no handler of either node keeps its write guard.
C21_HandshakeEnds ==
  <>[](cluster.requests = 0 \/
       \A h \in Hosts, t \in Threads : cluster.workers[h][t].pc = "idle")

\* C22: the local chain never gets shorter: new_transaction and add_node
\* leave its length, a mine that returns adds exactly one block, and
\* resolve leaves the chain when it returns false and makes it strictly
\* longer when it returns true.
C22_LengthNeverDecreases ==
  /\ Len(chain) >= Len(last.chain0)
  /\ last.op \in {"new_transaction", "add_node"} =>
       Len(chain) = Len(last.chain0)
  /\ (last.op = "mine" /\ last.ok) => Len(chain) = Len(last.chain0) + 1
  /\ (last.op = "resolve" /\ last.value = 0) => chain = last.chain0
  /\ (last.op = "resolve" /\ last.value = 1) => Len(chain) > Len(last.chain0)

\* a resolve replaced a chain that had a mined block with a longer one
\* while a shorter valid chain was fetched as well
C22_Witness ==
  /\ last.op = "resolve"
  /\ last.value = 1
  /\ Len(last.chain0) = 2
  /\ Len(chain) = 3
  /\ \E i \in 1..Len(last.fetched) :
       Len(last.fetched[i]) < Len(last.chain0) /\ validate_chain(last.fetched[i])

====
